---- MODULE Spec2Model ----
(***************************************************************************)
(* Model of AntiRateLimit (src/src/antiRateLimit.ts): a priority queue of  *)
(* tasks released under a per-window admission cap (maxRequests) and a     *)
(* concurrency cap, with retry of failed tasks.                            *)
(*                                                                         *)
(* JavaScript runs every synchronous stretch of code to completion, so one *)
(* action is one such stretch: addTask (push, sort, processQueue up to its *)
(* first await), the setInterval callback (reset, processQueue up to its   *)
(* first await), and the resumption of a processQueue pass when the thunk  *)
(* it awaits settles (resolve / catch, finally, and the loop's next        *)
(* iteration up to its next await).  A pass that has started a thunk is    *)
(* suspended on it; `awaiting` holds the suspended passes.                 *)
(***************************************************************************)
EXTENDS Integers, Sequences, FiniteSets

\* ---------------------------------------------------------------- bounds
NumTasks == 3          \* tasks the caller submits in one behaviour
MaxMaxRequests == 2    \* options.maxRequests ranges over 1..MaxMaxRequests
MaxConcurrency == 2    \* options.concurrency ranges over undefined (1 by default), 2..MaxConcurrency
MaxRetryLimit == 1     \* options.retryLimit ranges over 0..MaxRetryLimit
MaxPriority == 1       \* task.priority ranges over undefined, 0..MaxPriority
Interval == 2          \* options.interval, in clock slots
MaxFailures == 4       \* thunk executions that fail in one behaviour, all tasks together

\* ------------------------------------------------------ program constants
DefaultConcurrency == 1
DefaultRetryLimit == 3

\* an optional field left out (undefined); the numbers the model gives to the
\* optional fields are all >= 0
Undefined == 0 - 1

TaskIds == 1..NumTasks
OptionSets == [maxRequests : 1..MaxMaxRequests,
               concurrency : {Undefined} \cup (2..MaxConcurrency),
               retryLimit  : 0..MaxRetryLimit]
PriorityValues == {Undefined} \cup (0..MaxPriority)

VARIABLES
    options,        \* the RateLimiterOptions given to the constructor
    maxRequests,    \* this.maxRequests
    concurrency,    \* this.concurrency
    retryLimit,     \* this.retryLimit
    queue,          \* this.queue: sequence of task ids, head first
    activeTasks,    \* this.activeTasks
    requestCount,   \* this.requestCount
    submitted,      \* number of addTask calls so far; task i is the i-th submitted
    priority,       \* task.priority of each wrapped task (Undefined when left out)
    retries,        \* task.retries of each wrapped task
    awaiting,       \* suspended passes: [task, attempt] whose execute() is in flight
    resolveCalls,   \* times task.resolve was called, per task
    rejectCalls,    \* times task.reject was called, per task
    delivered,      \* attempt whose result/error was handed to resolve/reject (0: none)
    attempts,       \* times task.execute() was called, per task
    failures,       \* times task.execute() failed, per task
    clock,          \* slot inside the current timer period, 0..Interval-1
    slotStarts,     \* executions begun in each of the last Interval slots (last = now)
    dequeues,       \* the queue.shift() events of the last step: [task, rest]
    startOrder      \* tasks in the order of their first execution attempt

cfgVars == <<options, maxRequests, concurrency, retryLimit>>
vars == <<options, maxRequests, concurrency, retryLimit, queue, activeTasks,
          requestCount, submitted, priority, retries, awaiting, resolveCalls,
          rejectCalls, delivered, attempts, failures, clock, slotStarts,
          dequeues, startOrder>>

\* ------------------------------------------------------------ constructor
\* options.concurrency || 1
ConcurrencyOf(opts) ==
    IF opts.concurrency = Undefined \/ opts.concurrency = 0
    THEN DefaultConcurrency ELSE opts.concurrency

\* options.retryLimit || 3 : `||` takes the default for undefined and for 0
RetryLimitOf(opts) ==
    IF opts.retryLimit = Undefined \/ opts.retryLimit = 0
    THEN DefaultRetryLimit ELSE opts.retryLimit

\* ------------------------------------------------------------------ queue
\* (p.priority || 0)
PriorityOf(p) == IF p = Undefined THEN 0 ELSE p

\* variant: the operands of the comparator swapped (lower priority first)
CompareAscending(prio, a, b) == PriorityOf(prio[a]) - PriorityOf(prio[b])

\* comparator of the sort: (b.priority || 0) - (a.priority || 0); a positive
\* value puts b before a
Compare(prio, a, b) == PriorityOf(prio[b]) - PriorityOf(prio[a])

\* variant: x goes ahead of the elements of its own priority (no stability)
InsertUnstable(sorted, x, prio) ==
    LET before == {i \in 1..Len(sorted) : Compare(prio, sorted[i], x) >= 0}
        k == IF before = {} THEN Len(sorted) + 1
             ELSE CHOOSE i \in before : \A j \in before : i <= j
    IN SubSeq(sorted, 1, k - 1) \o <<x>> \o SubSeq(sorted, k, Len(sorted))

\* One insertion of the stable sort: x goes behind every element it does not
\* strictly precede.
InsertSorted(sorted, x, prio) ==
    LET before == {i \in 1..Len(sorted) : Compare(prio, sorted[i], x) > 0}
        k == IF before = {} THEN Len(sorted) + 1
             ELSE CHOOSE i \in before : \A j \in before : i <= j
    IN SubSeq(sorted, 1, k - 1) \o <<x>> \o SubSeq(sorted, k, Len(sorted))

\* Array.prototype.sort with the comparator above: a stable sort by
\* descending priority of the whole array.
RECURSIVE SortQueue(_, _)
SortQueue(q, prio) ==
    IF q = <<>> THEN <<>>
    ELSE InsertSorted(SortQueue(SubSeq(q, 1, Len(q) - 1), prio), q[Len(q)], prio)

\* ----------------------------------------------------------- mutable state
\* The fields a synchronous stretch of code reads and writes, as one record,
\* so that the stretch is the composition of its statements.  The actions
\* bind each intermediate record with \E over a singleton, which evaluates it
\* once.
Cur == [queue |-> queue, activeTasks |-> activeTasks, requestCount |-> requestCount,
        retries |-> retries, awaiting |-> awaiting, resolveCalls |-> resolveCalls,
        rejectCalls |-> rejectCalls, delivered |-> delivered, attempts |-> attempts,
        failures |-> failures, slotStarts |-> slotStarts, dequeues |-> <<>>,
        startOrder |-> startOrder]

Commit(s) ==
    /\ queue' = s.queue
    /\ activeTasks' = s.activeTasks
    /\ requestCount' = s.requestCount
    /\ retries' = s.retries
    /\ awaiting' = s.awaiting
    /\ resolveCalls' = s.resolveCalls
    /\ rejectCalls' = s.rejectCalls
    /\ delivered' = s.delivered
    /\ attempts' = s.attempts
    /\ failures' = s.failures
    /\ slotStarts' = s.slotStarts
    /\ dequeues' = s.dequeues
    /\ startOrder' = s.startOrder

\* ----------------------------------------------------------- processQueue
\* variant: the while condition without the test of the window
LoopConditionNoWindow(s) ==
    /\ Len(s.queue) > 0
    /\ s.activeTasks < concurrency

\* variant: the while condition without the test of the gate
LoopConditionNoGate(s) ==
    /\ Len(s.queue) > 0
    /\ s.requestCount < maxRequests

\* the while condition
LoopCondition(s) ==
    /\ Len(s.queue) > 0
    /\ s.activeTasks < concurrency
    /\ s.requestCount < maxRequests

\* variant: the head is read and left in the queue
StartHeadKeepsQueued(s) ==
    LET t == Head(s.queue)
        n == s.attempts[t] + 1
    IN [s EXCEPT !.activeTasks = s.activeTasks + 1,
                 !.requestCount = s.requestCount + 1,
                 !.attempts[t] = n,
                 !.awaiting = s.awaiting \cup {[task |-> t, attempt |-> n]},
                 !.slotStarts[Interval] = s.slotStarts[Interval] + 1,
                 !.dequeues = Append(s.dequeues, [task |-> t, rest |-> s.queue]),
                 !.startOrder = IF s.attempts[t] = 0
                                THEN Append(s.startOrder, t) ELSE s.startOrder]

\* variant: only the first execution of a task is counted in the window
StartHeadRetryFree(s) ==
    LET t == Head(s.queue)
        n == s.attempts[t] + 1
    IN [s EXCEPT !.queue = Tail(s.queue),
                 !.activeTasks = s.activeTasks + 1,
                 !.requestCount = s.requestCount + (IF s.attempts[t] = 0 THEN 1 ELSE 0),
                 !.attempts[t] = n,
                 !.awaiting = s.awaiting \cup {[task |-> t, attempt |-> n]},
                 !.slotStarts[Interval] = s.slotStarts[Interval] + 1,
                 !.dequeues = Append(s.dequeues, [task |-> t, rest |-> Tail(s.queue)]),
                 !.startOrder = IF s.attempts[t] = 0
                                THEN Append(s.startOrder, t) ELSE s.startOrder]

\* const task = this.queue.shift(); this.activeTasks++; this.requestCount++;
\* task.execute() is called and the pass suspends on its promise.
StartHead(s) ==
    LET t == Head(s.queue)
        n == s.attempts[t] + 1
    IN [s EXCEPT !.queue = Tail(s.queue),
                 !.activeTasks = s.activeTasks + 1,
                 !.requestCount = s.requestCount + 1,
                 !.attempts[t] = n,
                 !.awaiting = s.awaiting \cup {[task |-> t, attempt |-> n]},
                 !.slotStarts[Interval] = s.slotStarts[Interval] + 1,
                 !.dequeues = Append(s.dequeues, [task |-> t, rest |-> Tail(s.queue)]),
                 !.startOrder = IF s.attempts[t] = 0
                                THEN Append(s.startOrder, t) ELSE s.startOrder]

\* A call of processQueue(), or the re-evaluation of the loop by a resumed
\* pass, run up to its await (one task started) or to the loop's exit.
ProcessQueue(s) == IF LoopCondition(s) THEN StartHead(s) ELSE s

\* variant: one retry fewer
ShouldRetryOffByOne(r) == r + 1 < retryLimit

\* if (task.retries < this.retryLimit)
ShouldRetry(r) == r < retryLimit

\* task.resolve(result)
ResolveTask(s, p) ==
    [s EXCEPT !.resolveCalls[p.task] = s.resolveCalls[p.task] + 1,
              !.delivered[p.task] = p.attempt]

\* variant: the error is handed to reject on every failure
CatchBlockRejectToo(s, p) ==
    LET t == p.task
        f == [s EXCEPT !.failures[t] = s.failures[t] + 1]
    IN IF ShouldRetry(s.retries[t])
       THEN [f EXCEPT !.retries[t] = s.retries[t] + 1,
                      !.queue = Append(s.queue, t),
                      !.rejectCalls[t] = s.rejectCalls[t] + 1,
                      !.delivered[t] = p.attempt]
       ELSE [f EXCEPT !.rejectCalls[t] = s.rejectCalls[t] + 1,
                      !.delivered[t] = p.attempt]

\* the catch block: retry (push, without sorting) or reject
CatchBlock(s, p) ==
    LET t == p.task
        f == [s EXCEPT !.failures[t] = s.failures[t] + 1]
    IN IF ShouldRetry(s.retries[t])
       THEN [f EXCEPT !.retries[t] = s.retries[t] + 1,
                      !.queue = Append(s.queue, t)]
       ELSE [f EXCEPT !.rejectCalls[t] = s.rejectCalls[t] + 1,
                      !.delivered[t] = p.attempt]

\* variant: the slot is kept when the thunk settles
FinallyBlockKeepsSlot(s, p) ==
    LET released == [s EXCEPT !.awaiting = s.awaiting \ {p}]
    IN ProcessQueue(released)

\* the finally block: this.activeTasks--; this.processQueue();
FinallyBlock(s, p) ==
    LET released == [s EXCEPT !.activeTasks = s.activeTasks - 1,
                              !.awaiting = s.awaiting \ {p}]
    IN ProcessQueue(released)

\* time moves to the next slot
NextSlot(s) == [s EXCEPT !.slotStarts = Tail(s.slotStarts) \o <<0>>]

\* variant: the callback leaves the count alone
ResetWindowForgotten(s) == s

\* this.requestCount = 0
ResetWindow(s) == [s EXCEPT !.requestCount = 0]

\* ---------------------------------------------------------------- actions
Init ==
    /\ options \in OptionSets
    /\ maxRequests = options.maxRequests
    /\ concurrency = ConcurrencyOf(options)
    /\ retryLimit = RetryLimitOf(options)
    /\ queue = <<>>
    /\ activeTasks = 0
    /\ requestCount = 0
    /\ submitted = 0
    /\ priority = [t \in TaskIds |-> Undefined]
    /\ retries = [t \in TaskIds |-> 0]
    /\ awaiting = {}
    /\ resolveCalls = [t \in TaskIds |-> 0]
    /\ rejectCalls = [t \in TaskIds |-> 0]
    /\ delivered = [t \in TaskIds |-> 0]
    /\ attempts = [t \in TaskIds |-> 0]
    /\ failures = [t \in TaskIds |-> 0]
    /\ clock = 0
    /\ slotStarts = [i \in 1..Interval |-> 0]
    /\ dequeues = <<>>
    /\ startOrder = <<>>

\* addTask(task): wrap, push, sort, processQueue()
AddTask(p) ==
    /\ submitted < NumTasks
    /\ \E t \in {submitted + 1} :
       \E prio \in {[priority EXCEPT ![t] = p]} :
       \E pushed \in {[Cur EXCEPT !.queue = Append(queue, t)]} :
       \E sorted \in {[pushed EXCEPT !.queue = SortQueue(pushed.queue, prio)]} :
       \E passed \in {ProcessQueue(sorted)} :
          /\ submitted' = t
          /\ priority' = prio
          /\ Commit(passed)
    /\ UNCHANGED <<cfgVars, clock>>

\* the setInterval callback, at the end of each period
Tick ==
    /\ clock = Interval - 1
    /\ clock' = 0
    /\ \E reset \in {ResetWindow(NextSlot(Cur))} :
       \E passed \in {ProcessQueue(reset)} : Commit(passed)
    /\ UNCHANGED <<cfgVars, submitted, priority>>

\* time passes inside a period
Advance ==
    /\ clock < Interval - 1
    /\ clock' = clock + 1
    /\ \E moved \in {NextSlot(Cur)} : Commit(moved)
    /\ UNCHANGED <<cfgVars, submitted, priority>>

\* the thunk awaited by pass p settles and the pass resumes: try / catch,
\* finally, then the while condition again
Complete(p, ok) ==
    /\ p \in awaiting
    /\ \E settled \in {IF ok THEN ResolveTask(Cur, p) ELSE CatchBlock(Cur, p)} :
       \E released \in {FinallyBlock(settled, p)} :
       \E resumed \in {ProcessQueue(released)} : Commit(resumed)
    /\ UNCHANGED <<cfgVars, submitted, priority, clock>>

\* f[1] + ... + f[n]
RECURSIVE SumTo(_, _)
SumTo(f, n) == IF n = 0 THEN 0 ELSE f[n] + SumTo(f, n - 1)

\* a thunk returns a value
Succeed == \E p \in awaiting : Complete(p, TRUE)

\* a thunk throws
Fail ==
    /\ SumTo(failures, NumTasks) < MaxFailures
    /\ \E p \in awaiting : Complete(p, FALSE)

Submit == \E p \in PriorityValues : AddTask(p)

Next == Submit \/ Tick \/ Advance \/ Succeed \/ Fail

Spec == Init /\ [][Next]_vars

\* a thunk that was called settles: with a value, or by throwing
Finish ==
    \E p \in awaiting :
        \/ Complete(p, TRUE)
        \/ SumTo(failures, NumTasks) < MaxFailures /\ Complete(p, FALSE)

\* time passes: inside a period, or into the next one with the timer firing
TimePasses == Tick \/ Advance

\* The timer keeps firing and, while thunks are in flight, one of them
\* finishes; nothing obliges the caller to submit.  (That every thunk
\* finishes implies the second condition.)
FairSpec ==
    /\ Init /\ [][Next]_vars
    /\ WF_vars(TimePasses)
    /\ WF_vars(Finish)

\* ------------------------------------------------------------ observations
\* executions begun in the last Interval slots: a span of length interval
\* ending now
RollingStarts == SumTo(slotStarts, Interval)

\* executions begun since the last tick of the timer (slots 0..clock of the
\* current period)
WindowStarts == RollingStarts - SumTo(slotStarts, Interval - (clock + 1))

Queued == {queue[i] : i \in 1..Len(queue)}
Executing == {p.task : p \in awaiting}
Settled(t) == resolveCalls[t] + rejectCalls[t] > 0
Submitted == 1..submitted
Position(t) == CHOOSE i \in 1..Len(startOrder) : startOrder[i] = t
Started == {startOrder[i] : i \in 1..Len(startOrder)}

\* C1: between two consecutive ticks of the timer at most maxRequests task
\* executions begin; equivalently requestCount never exceeds maxRequests.
C1_WindowCap ==
    /\ requestCount <= maxRequests
    /\ WindowStarts <= maxRequests

\* the window is what holds the next task back
C1_Witness ==
    /\ requestCount = maxRequests
    /\ WindowStarts = maxRequests
    /\ Len(queue) > 0
    /\ activeTasks < concurrency

\* C2: the number of thunks executing at the same instant never exceeds the
\* concurrency, however many passes are suspended at once.
C2_ConcurrencyCap ==
    /\ Cardinality(awaiting) <= concurrency
    /\ activeTasks <= concurrency

\* several passes are live and the gate is what holds the next task back
C2_Witness ==
    /\ Cardinality(awaiting) >= 2
    /\ Cardinality(awaiting) = concurrency
    /\ Len(queue) > 0
    /\ requestCount < maxRequests

\* C3: whenever a pass dequeues a task, no task left in the queue has a
\* strictly higher priority than the dequeued one.
C3_HighestPriorityFirst ==
    \A i \in 1..Len(dequeues) :
        \A u \in {dequeues[i].rest[j] : j \in 1..Len(dequeues[i].rest)} :
            PriorityOf(priority[u]) <= PriorityOf(priority[dequeues[i].task])

\* C4: a task whose thunk fails on every attempt is rejected after exactly
\* retryLimit + 1 attempts, with the reason of the last attempt.
C4_RejectAfterLimitPlusOne ==
    \A t \in TaskIds :
        /\ rejectCalls[t] > 0 =>
               /\ attempts[t] = options.retryLimit + 1
               /\ delivered[t] = attempts[t]
        /\ failures[t] >= options.retryLimit + 1 => rejectCalls[t] > 0

\* C5: constructed with retryLimit = 0, a failing task is never retried: it
\* is rejected after exactly one attempt.
C5_NoRetryAtZero ==
    options.retryLimit = 0 =>
        \A t \in TaskIds :
            /\ retries[t] = 0
            /\ failures[t] > 0 => (rejectCalls[t] = 1 /\ attempts[t] = 1)

\* C6: a task that fails exactly retryLimit times and then succeeds is
\* resolved with the result of that execution, after retryLimit + 1
\* executions; none of the earlier failures reaches the caller.
C6_RecoverWithinLimit ==
    \A t \in TaskIds :
        /\ failures[t] <= options.retryLimit => rejectCalls[t] = 0
        /\ (failures[t] = options.retryLimit /\ Settled(t)) =>
               /\ resolveCalls[t] = 1
               /\ attempts[t] = options.retryLimit + 1
               /\ delivered[t] = attempts[t]

C6_Witness ==
    \E t \in TaskIds :
        /\ options.retryLimit >= 1
        /\ failures[t] = options.retryLimit
        /\ resolveCalls[t] = 1

\* C7: each task is settled at most once, by resolve or by reject and never
\* both, and a settled task is neither queued nor executed again.
C7_SettledOnce ==
    \A t \in TaskIds :
        /\ resolveCalls[t] + rejectCalls[t] <= 1
        /\ Settled(t) => (t \notin Queued /\ t \notin Executing)

\* one task settled after a retry, one rejected, others still to run
C7_Witness ==
    /\ \E t \in TaskIds : resolveCalls[t] = 1 /\ retries[t] > 0
    /\ \E t \in TaskIds : rejectCalls[t] = 1
    /\ Queued # {}

\* C8: every submitted task eventually settles, given that thunks finish and
\* the timer keeps ticking.  Settling is final and the tasks are finitely
\* many, so this is: again and again, every task submitted so far has settled.
C8_EveryTaskSettles == []<>(\A t \in Submitted : Settled(t))

\* every task was submitted and has settled, one of them only after waiting
\* for retries to run out
C8_Witness ==
    /\ submitted = NumTasks
    /\ \A t \in TaskIds : Settled(t)
    /\ \E t \in TaskIds : rejectCalls[t] = 1

\* C9, as stated: in every span of length interval, wherever it starts, at
\* most maxRequests executions begin.
C9_RollingWindowCap == RollingStarts <= maxRequests

\* C9, amended: a span of length interval that lies between two consecutive
\* ticks holds at most maxRequests starts, and any span of that length holds
\* at most 2 * maxRequests.
C9_AlignedWindowCap ==
    /\ clock = Interval - 1 => RollingStarts <= maxRequests
    /\ RollingStarts <= 2 * maxRequests

\* a span across a tick that holds twice the cap
C9_Witness ==
    /\ clock < Interval - 1
    /\ RollingStarts = 2 * maxRequests

\* C10: of two tasks of equal priority, the one submitted first has its
\* first execution attempt begin first.
C10_FifoWithinPriority ==
    \A a \in Submitted : \A b \in Submitted :
        (/\ a < b
         /\ PriorityOf(priority[a]) = PriorityOf(priority[b])
         /\ b \in Started) =>
            (a \in Started /\ Position(a) < Position(b))

\* two tasks of equal priority waited in the queue together, behind a retried
\* task, and both have started
C10_Witness ==
    \E a \in Started : \E b \in Started : \E c \in Started :
        /\ a < b
        /\ PriorityOf(priority[a]) = PriorityOf(priority[b])
        /\ c < a
        /\ retries[c] > 0
        /\ Position(c) < Position(a)
        /\ attempts[a] = 1 /\ attempts[b] = 1 /\ attempts[c] = 1 + retries[c]
        /\ Position(b) = Len(startOrder)

\* times task t occurs in the queue
QueueCount(t) == Cardinality({i \in 1..Len(queue) : queue[i] = t})

\* passes suspended on an execution of task t
InFlight(t) == Cardinality({p \in awaiting : p.task = t})

\* C11: at every instant a submitted task is in exactly one of the states
\* queued, executing, completed: it is in the queue at most once, never in
\* the queue while its thunk executes, and never has two executions in flight.
C11_OneStateAtATime ==
    \A t \in TaskIds :
        /\ QueueCount(t) <= 1
        /\ InFlight(t) <= 1
        /\ t \in Submitted =>
               QueueCount(t) + InFlight(t) + (IF Settled(t) THEN 1 ELSE 0) = 1
        /\ t \notin Submitted =>
               QueueCount(t) + InFlight(t) + (IF Settled(t) THEN 1 ELSE 0) = 0

\* a resumed pass has just dequeued a task; one task waits for its retry, one
\* executes and one has completed
C11_Witness ==
    /\ Len(dequeues) > 0
    /\ \E t \in Queued : retries[t] > 0
    /\ \E t \in TaskIds : Settled(t)
    /\ awaiting # {}

FailureOf(p) ==
    /\ p \in awaiting
    /\ p \notin awaiting'
    /\ failures'[p.task] = failures[p.task] + 1

\* C13: a failing thunk affects only its own task.  A task is rejected only
\* by the failure of its own thunk with no retry left, and the step of a
\* failure leaves the retry counts and the futures of the other tasks alone,
\* releases the slot and runs a pass: a task is dequeued if one is queued and
\* the window has room.
C13_FailureIsLocal ==
    [][/\ \A t \in TaskIds :
              rejectCalls'[t] # rejectCalls[t] =>
                  /\ \E p \in awaiting : p.task = t /\ FailureOf(p)
                  /\ retries[t] = retryLimit
                  /\ failures'[t] = attempts[t]
       /\ \A p \in awaiting :
              FailureOf(p) =>
                  /\ \A u \in TaskIds \ {p.task} :
                         /\ resolveCalls'[u] = resolveCalls[u]
                         /\ rejectCalls'[u] = rejectCalls[u]
                         /\ retries'[u] = retries[u]
                         /\ failures'[u] = failures[u]
                  /\ activeTasks' = activeTasks - 1 + Len(dequeues')
                  /\ activeTasks' = Cardinality(awaiting')
                  /\ (Len(queue') > 0 /\ requestCount' < maxRequests) =>
                         Len(dequeues') > 0]_vars

\* one task was rejected, another has been resolved and a third has just
\* been dequeued
C13_Witness ==
    \E t \in TaskIds : \E u \in TaskIds \ {t} :
        /\ rejectCalls[t] = 1
        /\ resolveCalls[u] = 1
        /\ Len(dequeues) > 0
        /\ dequeues[1].task \notin {t, u}

\* C14: the owner can stop the timer: after some operation of the owner no
\* further window reset and no further timer-triggered pass occurs.  The
\* owner's operations are the constructor and addTask (the class has no other
\* public member, and the handle of setInterval is not kept); if any of them
\* stopped the timer, no tick would follow the last addTask.
C14_TimerCanBeStopped == [][submitted = NumTasks => ~Tick]_vars

\* C15: a scheduling pass launches every task that fits: when control is back
\* in the event loop, no task waits in the queue while the gate and the
\* window both have room.
C15_NoIdleHeadroom ==
    ~(/\ Len(queue) > 0
      /\ activeTasks < concurrency
      /\ requestCount < maxRequests)

\* the queue is in descending order of priority
QueueSorted ==
    \A i \in 1..Len(queue) : \A j \in 1..Len(queue) :
        i < j => PriorityOf(priority[queue[i]]) >= PriorityOf(priority[queue[j]])

\* C16: a task re-enqueued for a retry re-enters the priority ordering as a
\* fresh submission would: right after the re-enqueue the queue is in
\* descending order of priority, the retried task ahead of every queued task
\* of strictly lower priority and behind every queued task of equal or higher
\* priority.
C16_RetryReentersOrdering ==
    [][\A t \in TaskIds :
          (retries'[t] = retries[t] + 1 /\ QueueCount(t)' = 1) =>
              /\ QueueSorted'
              /\ \A i \in 1..Len(queue') : \A j \in 1..Len(queue') :
                     (queue'[j] = t /\ i # j) =>
                         (i < j <=> PriorityOf(priority[queue'[i]]) >= PriorityOf(priority[t]))]_vars

\* the step is a firing of the setInterval callback
TickStep == clock = Interval - 1 /\ clock' = 0

\* C17: once requestCount has reached maxRequests no task begins executing
\* (and the count stays there) until the next tick; the tick sets the count
\* to 0 and runs a pass, so that the head of the queue begins executing at
\* the tick when the queue is non-empty and a slot is free, and nothing
\* begins otherwise.
C17_ExhaustedWindowWaitsForTick ==
    [][/\ (requestCount = maxRequests /\ ~TickStep) =>
              /\ attempts' = attempts
              /\ awaiting' \subseteq awaiting
              /\ requestCount' = maxRequests
       /\ TickStep =>
              IF Len(queue) > 0 /\ activeTasks < concurrency
              THEN /\ requestCount' = 1
                   /\ attempts' = [attempts EXCEPT ![Head(queue)] = @ + 1]
                   /\ [task |-> Head(queue), attempt |-> attempts[Head(queue)] + 1]
                          \in awaiting'
                   /\ queue' = Tail(queue)
              ELSE /\ requestCount' = 0
                   /\ attempts' = attempts
                   /\ queue' = queue]_vars

\* with maxRequests = 2 and one slot, two tasks ran and were resolved in a
\* window, the third waited with the slot free, and a tick has just started it
C17_Witness ==
    /\ maxRequests = 2
    /\ concurrency = 1
    /\ clock = 0
    /\ requestCount = 1
    /\ resolveCalls = [t \in TaskIds |-> IF t <= 2 THEN 1 ELSE 0]
    /\ attempts = [t \in TaskIds |-> IF t <= 3 THEN 1 ELSE 0]
    /\ Len(dequeues) = 1
    /\ dequeues[1].task = 3

\* C18: activeTasks is exactly the number of thunks that are executing: every
\* execution begun and not yet finished (by a value, by a failure that is
\* retried or by the final failure) holds one slot, so the counter is never
\* negative and is 0 when nothing executes.
C18_ActiveTasksIsExecuting ==
    /\ activeTasks = Cardinality(awaiting)
    /\ activeTasks = Cardinality(Executing)
    /\ activeTasks >= 0
    /\ \A t \in TaskIds : attempts[t] - resolveCalls[t] - failures[t] = InFlight(t)
    /\ activeTasks = SumTo(attempts, NumTasks) - SumTo(resolveCalls, NumTasks)
                         - SumTo(failures, NumTasks)

\* nothing executes and the counter is back at 0 after a success, a failure
\* that was retried and a final failure
C18_Witness ==
    /\ awaiting = {}
    /\ activeTasks = 0
    /\ \E t \in TaskIds : resolveCalls[t] = 1 /\ failures[t] = 0
    /\ \E t \in TaskIds : resolveCalls[t] = 1 /\ retries[t] > 0
    /\ \E t \in TaskIds : rejectCalls[t] = 1

\* C19: every execution that begins, a retry as much as a first attempt,
\* takes one admission of the window: requestCount is the number of
\* executions begun since the last reset, a step raises it by the number of
\* executions it begins, a task retried k times has begun k + 1 executions
\* once its last retry runs, and no retry begins on an exhausted window.
C19_RetryConsumesAdmission ==
    [][/\ requestCount' = WindowStarts'
       /\ SumTo(attempts', NumTasks) - SumTo(attempts, NumTasks)
              = requestCount' - (IF TickStep THEN 0 ELSE requestCount)
       /\ \A t \in TaskIds :
              /\ (t \in Executing' \/ Settled(t)') => attempts'[t] = retries'[t] + 1
              /\ QueueCount(t)' = 1 => attempts'[t] = retries'[t]
              /\ (attempts'[t] > attempts[t] /\ retries[t] > 0) =>
                     (TickStep \/ requestCount < maxRequests)]_vars

\* a task and its retry have both begun in the present window, which they
\* exhaust
C19_Witness ==
    \E t \in Executing :
        /\ retries[t] = 1
        /\ attempts[t] = 2
        /\ requestCount = 2
        /\ maxRequests = 2
        /\ SumTo(attempts, NumTasks) = 2
        /\ clock = 0
        /\ slotStarts[Interval] = 2

====
